---- MODULE Spec2Model ----
(***************************************************************************)
(* Model of the voice-agent orchestrator: the session store                *)
(* (session_manager.py), the turn orchestrator (handler.py) and the action *)
(* derivation of the inference client (bedrock_client.py).                 *)
(*                                                                         *)
(* Abstractions, each of write-only or opaque data:                        *)
(*   - uuid4() is a fresh counter value (next_uuid);                       *)
(*   - the "timestamp" of a history entry and "created_at"/"metadata" of a *)
(*     session are written and never read by the modelled code, and are    *)
(*     left out of the records;                                            *)
(*   - json.dumps(result) of a tool is a record [error, tool];             *)
(*   - one handler invocation runs at one clock value (now).               *)
(***************************************************************************)
EXTENDS Integers, Sequences, FiniteSets, TLC

\* ------------------------------------------------------------------ bounds
MaxEvents == 3
MaxCap == 1
MaxTurns == 2
MaxAppends == 4
MaxTools == 2
MaxToolEvents == 1
MaxFaultEvents == 2
MaxTwinEvents == 2
MaxErrorEvents == 2

\* The SESSION_TTL_SECONDS environment setting, configured to one second.
SESSION_TTL_SECONDS == 1

\* The clock runs until a session written at time 0 has expired.
MaxTime == SESSION_TTL_SECONDS + 1

\* ------------------------------------------------------- program constants

GREETING_MESSAGE == "Hello! Thank you for calling. How can I help you today?"

GOODBYE_MESSAGE == "Thank you for calling. Have a great day!"

HANDOFF_MESSAGE == "I've been helping you for a while now. Let me transfer you to a specialist who can continue assisting you."

THROTTLE_MESSAGE == "I'm experiencing high demand right now. Please hold on a moment."

STREAM_ERROR_MESSAGE == "I had a brief issue. Could you please repeat that?"

CLIENT_ERROR_MESSAGE == "I'm having trouble processing your request. Let me transfer you to an agent."

UNEXPECTED_ERROR_MESSAGE == "I encountered an issue. Let me connect you with someone who can help."

\* ------------------------------------------------------------ input sets
Contacts == {"c1"}

UserInputs == {"what is my balance", "bye"}

Roles == {"user", "assistant"}

\* Texts the inference backend may produce, with the lexical cues they hold.
PLAIN_TEXT == "Your balance is ten dollars."

CLOSING_TEXT == "Goodbye, take care."

TRANSFER_TEXT == "Let me transfer you to an agent."

BackendTexts == {PLAIN_TEXT, CLOSING_TEXT, TRANSFER_TEXT}

\* Further texts, which mix the cues, inflect them or change their case.
BOTH_CUES_TEXT == "Transfer to an AGENT. Take care."

INFLECTED_TEXT == "Agents transferred you."

TRANSFER_ONLY_TEXT == "Transfer pending."

SHOUTED_TEXT == "THANK YOU FOR CALLING"

CueTexts == BackendTexts \cup {BOTH_CUES_TEXT, INFLECTED_TEXT,
                               TRANSFER_ONLY_TEXT, SHOUTED_TEXT}

None == [none |-> TRUE]

\* ---------------------------------------------------------------- state
VARIABLES
    cfg,                \* environment read at construction
    now,                \* int(time.time())
    next_uuid,          \* source of uuid4 values
    sessions,           \* SessionManager._sessions (in-memory dict)
    table,              \* SessionManager._table (durable table)
    events,             \* number of events handled so far
    last,               \* the event handled last
    resp,               \* what lambda_handler returned for it
    turn,               \* what the last user_input turn did
    complete_calls,     \* neptune complete_session calls, per session id
    end_writes,         \* completed-record writes of end_session, per session id
    appended,           \* entries passed to add_message since create, per contact
    inflight            \* invocations running concurrently, each at its step

vars == <<cfg, now, next_uuid, sessions, table, events, last, resp, turn,
          complete_calls, end_writes, appended, inflight>>

\* ------------------------------------------------------------ sequences
Max(a, b) == IF a >= b THEN a ELSE b

Min(a, b) == IF a <= b THEN a ELSE b

\* Python's lst[start:] for any integer start (a negative start counts from
\* the end and is clamped at the beginning; -0 is 0).
PySliceFrom(lst, start) ==
    LET n == Len(lst)
        begin == IF start < 0 THEN Max(n + start, 0) ELSE Min(start, n)
    IN  SubSeq(lst, begin + 1, n)

\* The last k entries of lst, all of them when k >= Len(lst).
LastN(lst, k) == SubSeq(lst, Len(lst) - Min(k, Len(lst)) + 1, Len(lst))

\* ---------------------------------------------------------- session store
Store == [sessions |-> sessions, table |-> table]

NewSession(contact_id, session_id, timestamp) ==
    [session_id |-> session_id,
     contact_id |-> contact_id,
     updated_at |-> timestamp,
     ttl |-> timestamp + SESSION_TTL_SECONDS,
     conversation_history |-> <<>>,
     turn_count |-> 0,
     status |-> "active",
     caller_history |-> 0,
     ended_at |-> -1]

\* put_item / dict assignment with the record stored under one shared key,
\* whatever the contact id.
PutItem_shared_key(st, contact_id, session) ==
    IF cfg.use_dynamodb
    THEN [st EXCEPT !.table = [c \in DOMAIN @ |-> session]]
    ELSE [st EXCEPT !.sessions = [c \in DOMAIN @ |-> session]]

\* put_item / dict assignment of one record under its contact id.
PutItem(st, contact_id, session) ==
    IF cfg.use_dynamodb
    THEN [st EXCEPT !.table[contact_id] = session]
    ELSE [st EXCEPT !.sessions[contact_id] = session]

Stored(st, contact_id) ==
    IF cfg.use_dynamodb THEN st.table[contact_id] ELSE st.sessions[contact_id]

create_session(st, contact_id, session_id, t) ==
    PutItem(st, contact_id, NewSession(contact_id, session_id, t))

\* get_session with the durable branch returning the item as stored.
get_session_unchecked(st, contact_id, t) ==
    LET session == Stored(st, contact_id)
    IN  IF cfg.use_dynamodb
        THEN [ret |-> session, st |-> st]
        ELSE IF session # None /\ session.ttl < t
             THEN [ret |-> None, st |-> [st EXCEPT !.sessions[contact_id] = None]]
             ELSE [ret |-> session, st |-> st]

\* get_session: the value returned (ret) and the store it leaves (st).
get_session(st, contact_id, t) ==
    LET session == Stored(st, contact_id)
    IN  IF cfg.use_dynamodb
        THEN IF session # None /\ session.ttl < t
             THEN [ret |-> None, st |-> st]
             ELSE [ret |-> session, st |-> st]
        ELSE IF session # None /\ session.ttl < t
             THEN [ret |-> None, st |-> [st EXCEPT !.sessions[contact_id] = None]]
             ELSE [ret |-> session, st |-> st]

Refreshed(session, t) ==
    [session EXCEPT !.updated_at = t, !.ttl = t + SESSION_TTL_SECONDS]

\* update_session appending the newest entry to the history stored now.
update_session_append(st, contact_id, session, t) ==
    LET stored == Stored(st, contact_id)
        history == session.conversation_history
    IN  IF stored = None \/ history = <<>>
        THEN PutItem(st, contact_id, Refreshed(session, t))
        ELSE PutItem(st, contact_id,
                 Refreshed([session EXCEPT !.conversation_history =
                                Append(stored.conversation_history,
                                       history[Len(history)])], t))

update_session(st, contact_id, session, t) ==
    PutItem(st, contact_id, Refreshed(session, t))

\* update_session when the clock is read twice: updated_at is set from the
\* first int(time.time()) and ttl from the second.
update_session_clock(st, contact_id, session, t_updated, t_ttl) ==
    PutItem(st, contact_id,
            [session EXCEPT !.updated_at = t_updated,
                            !.ttl = t_ttl + SESSION_TTL_SECONDS])

TrimHistory(conversation_history) ==
    IF Len(conversation_history) > cfg.max_history_length * 2
    THEN PySliceFrom(conversation_history, -(cfg.max_history_length * 2))
    ELSE conversation_history

Message(role, content) == [role |-> role, content |-> content]

add_message(st, contact_id, role, content, t) ==
    LET g == get_session(st, contact_id, t)
        session == g.ret
    IN  IF session = None
        THEN g.st
        ELSE update_session(g.st, contact_id,
                 [session EXCEPT !.conversation_history =
                      TrimHistory(Append(@, Message(role, content)))], t)

\* end_session: the store it leaves and whether it wrote a completed record.
end_session(st, contact_id, t) ==
    LET g == get_session(st, contact_id, t)
        session == g.ret
    IN  IF session = None
        THEN [st |-> g.st, wrote |-> FALSE]
        ELSE LET ended == [session EXCEPT !.status = "completed", !.ended_at = t]
             IN  IF cfg.use_dynamodb
                 THEN [st |-> [g.st EXCEPT !.table[contact_id] = ended], wrote |-> TRUE]
                 ELSE [st |-> [g.st EXCEPT !.sessions[contact_id] = None], wrote |-> FALSE]

FormatMessage(msg) ==
    [role |-> msg.role, content |-> <<[type |-> "text", text |-> msg.content]>>]

get_conversation_history(st, contact_id, t) ==
    LET session == get_session(st, contact_id, t).ret
    IN  IF session = None
        THEN <<>>
        ELSE [i \in 1..Len(session.conversation_history) |->
                  FormatMessage(session.conversation_history[i])]

\* ------------------------------------------------------------------ init
Configs ==
    [use_dynamodb : BOOLEAN,
     max_history_length : 0..MaxCap,
     max_turns : 1..MaxTurns,
     neptune : BOOLEAN]

NoEvent == [type |-> "none", contact |-> "none", user_input |-> ""]

\* No invocation is running.
Idle == <<>>

NoTurn == [none |-> TRUE]

Init ==
    /\ cfg \in Configs
    /\ now = 0
    /\ next_uuid = 1
    /\ sessions = [c \in Contacts |-> None]
    /\ table = [c \in Contacts |-> None]
    /\ events = 0
    /\ last = NoEvent
    /\ resp = None
    /\ turn = NoTurn
    /\ complete_calls = <<>>
    /\ end_writes = <<>>
    /\ appended = [c \in Contacts |-> <<>>]
    /\ inflight = Idle

\* time.time() advances between invocations.
Tick ==
    /\ now < MaxTime
    /\ now' = now + 1
    /\ UNCHANGED <<cfg, next_uuid, sessions, table, events, last, resp, turn,
                   complete_calls, end_writes, appended, inflight>>

\* ------------------------------------------- the session store on its own
CreateSession(c) ==
    /\ appended[c] = <<>>
    /\ get_session(Store, c, now).ret = None
    /\ LET st == create_session(Store, c, next_uuid, now)
       IN  /\ sessions' = st.sessions
           /\ table' = st.table
    /\ next_uuid' = next_uuid + 1
    /\ UNCHANGED <<cfg, now, events, last, resp, turn, complete_calls,
                   end_writes, appended, inflight>>

AddMessage(c, role, content) ==
    /\ Len(appended[c]) < MaxAppends
    /\ get_session(Store, c, now).ret # None
    /\ LET st == add_message(Store, c, role, content, now)
       IN  /\ sessions' = st.sessions
           /\ table' = st.table
    /\ appended' = [appended EXCEPT ![c] = Append(@, Message(role, content))]
    /\ UNCHANGED <<cfg, now, next_uuid, events, last, resp, turn,
                   complete_calls, end_writes, inflight>>

InitHistory ==
    /\ Init
    /\ cfg.max_turns = 1
    /\ ~cfg.neptune

NextHistory ==
    \/ Tick
    \/ \E c \in Contacts : CreateSession(c)
    \/ \E c \in Contacts, role \in Roles, content \in UserInputs :
           AddMessage(c, role, content)

SpecHistory == InitHistory /\ [][NextHistory]_vars

\* ------------------------------------------- the two clock reads of update
\* The handler's update of a live session with a new turn count. elapsed is
\* the number of seconds by which the second int(time.time()) of
\* update_session is later than the first: 0 unless the clock moves on
\* between the two lines.
UpdateSession(c, turn_count, elapsed) ==
    /\ now + elapsed <= MaxTime
    /\ get_session(Store, c, now).ret # None
    /\ LET g == get_session(Store, c, now)
           st == update_session_clock(g.st, c,
                     [g.ret EXCEPT !.turn_count = turn_count],
                     now, now + elapsed)
       IN  /\ sessions' = st.sessions
           /\ table' = st.table
    /\ now' = now + elapsed
    /\ UNCHANGED <<cfg, next_uuid, events, last, resp, turn, complete_calls,
                   end_writes, appended, inflight>>

\* get_session as any event makes it; an expired in-memory session is evicted.
LookUp(c) ==
    /\ get_session(Store, c, now).st # Store
    /\ sessions' = get_session(Store, c, now).st.sessions
    /\ table' = get_session(Store, c, now).st.table
    /\ UNCHANGED <<cfg, now, next_uuid, events, last, resp, turn,
                   complete_calls, end_writes, appended, inflight>>

NextClock ==
    \/ Tick
    \/ \E c \in Contacts : CreateSession(c)
    \/ \E c \in Contacts : LookUp(c)
    \/ \E c \in Contacts, turn_count \in 0..MaxTurns, elapsed \in 0..1 :
           UpdateSession(c, turn_count, elapsed)

SpecClock == InitHistory /\ [][NextClock]_vars

\* ------------------------------------------------------ inference backend
TOOL_NAMES == {"search_knowledge_base", "lookup_account",
               "schedule_appointment", "transfer_to_agent"}

ToolCall(id, name) == [id |-> id, name |-> name]

\* The characters of each text, in order.
Chars(text) ==
    CASE text = PLAIN_TEXT ->
            <<"Y", "o", "u", "r", " ", "b", "a", "l", "a", "n", "c", "e",
              " ", "i", "s", " ", "t", "e", "n", " ", "d", "o", "l", "l",
              "a", "r", "s", ".">>
      [] text = CLOSING_TEXT ->
            <<"G", "o", "o", "d", "b", "y", "e", ",", " ", "t", "a", "k",
              "e", " ", "c", "a", "r", "e", ".">>
      [] text = TRANSFER_TEXT ->
            <<"L", "e", "t", " ", "m", "e", " ", "t", "r", "a", "n", "s",
              "f", "e", "r", " ", "y", "o", "u", " ", "t", "o", " ", "a",
              "n", " ", "a", "g", "e", "n", "t", ".">>
      [] text = BOTH_CUES_TEXT ->
            <<"T", "r", "a", "n", "s", "f", "e", "r", " ", "t", "o", " ",
              "a", "n", " ", "A", "G", "E", "N", "T", ".", " ", "T", "a",
              "k", "e", " ", "c", "a", "r", "e", ".">>
      [] text = INFLECTED_TEXT ->
            <<"A", "g", "e", "n", "t", "s", " ", "t", "r", "a", "n", "s",
              "f", "e", "r", "r", "e", "d", " ", "y", "o", "u", ".">>
      [] text = TRANSFER_ONLY_TEXT ->
            <<"T", "r", "a", "n", "s", "f", "e", "r", " ", "p", "e", "n",
              "d", "i", "n", "g", ".">>
      [] text = SHOUTED_TEXT ->
            <<"T", "H", "A", "N", "K", " ", "Y", "O", "U", " ", "F", "O",
              "R", " ", "C", "A", "L", "L", "I", "N", "G">>

\* str.lower() on one character.
LOWER ==
    [A |-> "a", B |-> "b", C |-> "c", D |-> "d", E |-> "e", F |-> "f",
     G |-> "g", H |-> "h", I |-> "i", J |-> "j", K |-> "k", L |-> "l",
     M |-> "m", N |-> "n", O |-> "o", P |-> "p", Q |-> "q", R |-> "r",
     S |-> "s", T |-> "t", U |-> "u", V |-> "v", W |-> "w", X |-> "x",
     Y |-> "y", Z |-> "z"]

Lower(ch) == IF ch \in DOMAIN LOWER THEN LOWER[ch] ELSE ch

\* text_lower = text.lower()
text_lower(text) == [i \in 1..Len(Chars(text)) |-> Lower(Chars(text)[i])]

\* Python's "sub in s" on strings.
Contains(s, sub) ==
    \E i \in 0..(Len(s) - Len(sub)) : SubSeq(s, i + 1, i + Len(sub)) = sub

CLOSING_PHRASES ==
    {<<"g", "o", "o", "d", "b", "y", "e">>,
     <<"h", "a", "v", "e", " ", "a", " ", "g", "r", "e", "a", "t", " ", "d",
       "a", "y">>,
     <<"t", "h", "a", "n", "k", " ", "y", "o", "u", " ", "f", "o", "r", " ",
       "c", "a", "l", "l", "i", "n", "g">>,
     <<"t", "a", "k", "e", " ", "c", "a", "r", "e">>}

TRANSFER_WORD == <<"t", "r", "a", "n", "s", "f", "e", "r">>

AGENT_WORD == <<"a", "g", "e", "n", "t">>

HasClosingPhrase(text) ==
    \E phrase \in CLOSING_PHRASES : Contains(text_lower(text), phrase)

HasTransferCue(text) ==
    /\ Contains(text_lower(text), TRANSFER_WORD)
    /\ Contains(text_lower(text), AGENT_WORD)

\* The texts in which _build_response finds a closing phrase, and those in
\* which it finds both "transfer" and "agent".
CLOSING_TEXTS == {text \in CueTexts : HasClosingPhrase(text)}

TRANSFER_CUE_TEXTS == {text \in CueTexts : HasTransferCue(text)}

\* _build_response naming the action of a closing phrase "hangup".
DeriveAction_hangup(text, tool_calls, stop_reason) ==
    IF stop_reason = "tool_use" /\ tool_calls # <<>>
    THEN IF \E i \in 1..Len(tool_calls) : tool_calls[i].name = "transfer_to_agent"
         THEN "transfer"
         ELSE "continue"
    ELSE IF text \in CLOSING_TEXTS
         THEN "hangup"
         ELSE IF text \in TRANSFER_CUE_TEXTS THEN "transfer" ELSE "continue"

\* _build_response: the action derived from one backend response.
DeriveAction(text, tool_calls, stop_reason) ==
    IF stop_reason = "tool_use" /\ tool_calls # <<>>
    THEN IF \E i \in 1..Len(tool_calls) : tool_calls[i].name = "transfer_to_agent"
         THEN "transfer"
         ELSE "continue"
    ELSE IF text \in CLOSING_TEXTS
         THEN "end"
         ELSE IF text \in TRANSFER_CUE_TEXTS THEN "transfer" ELSE "continue"

\* _build_response reading the lexical cues whatever the stop reason.
build_response_lexical(text, tool_calls, stop_reason) ==
    [response |-> text,
     action |-> DeriveAction(text, <<>>, stop_reason),
     tool_calls |-> tool_calls,
     stop_reason |-> stop_reason]

build_response(text, tool_calls, stop_reason) ==
    [response |-> text,
     action |-> DeriveAction(text, tool_calls, stop_reason),
     tool_calls |-> tool_calls,
     stop_reason |-> stop_reason]

\* What the backend does on one invocation: it answers (kind "ok") or the
\* call fails with a ClientError of some code or with another exception.
Outcome(kind, text, tool_calls, stop_reason) ==
    [kind |-> kind, text |-> text, tool_calls |-> tool_calls,
     stop_reason |-> stop_reason]

Failure(kind) == Outcome(kind, "", <<>>, "none")

NoOutcome == Failure("not_invoked")

\* tool_result blocks _build_messages appends for the follow-up call.
ToolResultBlocks(tool_results) ==
    [i \in 1..Len(tool_results) |->
        [type |-> "tool_result",
         tool_use_id |-> tool_results[i].tool_use_id,
         content |-> tool_results[i].content]]

build_messages(conversation_history, tool_results) ==
    IF tool_results # <<>>
    THEN Append(conversation_history,
                [role |-> "user", content |-> ToolResultBlocks(tool_results)])
    ELSE conversation_history

\* The tool definitions offered on every request.
ToolsOfferedAlways(tool_results) == TOOL_NAMES # {}

\* Whether the request body carries the tool definitions.
ToolsOffered(tool_results) == tool_results = <<>> /\ TOOL_NAMES # {}

\* Error codes of the ClientError the backend call can fail with; any other
\* kind of failure is an exception of another class, named by its class.
CLIENT_ERROR_CODES == {"ThrottlingException", "ModelStreamErrorException",
                       "ValidationException", "AccessDeniedException"}

\* generate_response answering every failure as a request to repeat.
generate_response_repeat(outcome) ==
    CASE outcome.kind = "ok" ->
             build_response(outcome.text, outcome.tool_calls, outcome.stop_reason)
      [] OTHER ->
             [response |-> STREAM_ERROR_MESSAGE, action |-> "continue"]

\* generate_response: the dictionary returned for one invocation.
generate_response(outcome) ==
    CASE outcome.kind = "ok" ->
             build_response(outcome.text, outcome.tool_calls, outcome.stop_reason)
      [] outcome.kind = "ThrottlingException" ->
             [response |-> THROTTLE_MESSAGE, action |-> "continue"]
      [] outcome.kind = "ModelStreamErrorException" ->
             [response |-> STREAM_ERROR_MESSAGE, action |-> "continue"]
      [] outcome.kind \in CLIENT_ERROR_CODES ->
             [response |-> CLIENT_ERROR_MESSAGE, action |-> "transfer"]
      [] OTHER ->
             [response |-> UNEXPECTED_ERROR_MESSAGE, action |-> "transfer"]

\* One entry of the log of backend invocations of a turn.
Invocation(conversation_history, tool_results, outcome) ==
    [messages |-> build_messages(conversation_history, tool_results),
     tools_offered |-> ToolsOffered(tool_results),
     kind |-> outcome.kind,
     reply |-> generate_response(outcome)]

\* ------------------------------------------------------------------ tools
\* One tool call's result; raises is whether the tool's implementation threw.
ToolResult(tool_call, raises) ==
    [tool_use_id |-> tool_call.id,
     content |-> IF tool_call.name \in TOOL_NAMES
                 THEN IF raises
                      THEN [error |-> TRUE, tool |-> "exception"]
                      ELSE [error |-> FALSE, tool |-> tool_call.name]
                 ELSE [error |-> TRUE, tool |-> "unknown"]]

\* execute_tools giving up at the first tool that throws.
execute_tools_abort(tool_calls, raising) ==
    LET stop == IF raising = {} THEN Len(tool_calls)
                ELSE CHOOSE i \in raising : \A j \in raising : i <= j
    IN  [i \in 1..stop |-> ToolResult(tool_calls[i], i \in raising)]

execute_tools(tool_calls, raising) ==
    [i \in 1..Len(tool_calls) |-> ToolResult(tool_calls[i], i \in raising)]

\* ------------------------------------------------- failures of the services
\* What the services around one invocation do: the session-store calls that
\* fail with a ClientError (named by call site, durable backing only),
\* whether the graph store is unreachable, and what the CloudWatch call of
\* each metrics publish does ("ok", "ClientError" or "Exception").
Env(fails, neptune_fails, metrics_llm, metrics_total) ==
    [fails |-> fails, neptune_fails |-> neptune_fails,
     metrics_llm |-> metrics_llm, metrics_total |-> metrics_total]

NoFaults == Env({}, FALSE, "ok", "ok")

Fails(io, site) == cfg.use_dynamodb /\ site \in io.fails

\* An exception in flight: its class, the error code and recoverable flag
\* of a VoiceAgentError, and its message text.
Error(type, error_code, recoverable, message) ==
    [type |-> type, error_code |-> error_code, recoverable |-> recoverable,
     message |-> message]

NoError == [type |-> "none"]

StoreError(site) == Error("ClientError", "", FALSE, site)

MetricsError == Error("EndpointConnectionError", "", FALSE, "put_metric_data")

\* VoiceAgentError and its subclasses (isinstance(error, VoiceAgentError)).
ERROR_CODES ==
    [SessionError |-> "SESSION_ERROR", BedrockError |-> "BEDROCK_ERROR",
     NeptuneError |-> "NEPTUNE_ERROR",
     TranscriptionError |-> "TRANSCRIPTION_ERROR",
     ToolExecutionError |-> "TOOL_EXECUTION_ERROR"]

VOICE_AGENT_ERRORS ==
    {"VoiceAgentError", "ConfigurationError", "RateLimitError"}
    \cup DOMAIN ERROR_CODES

\* VoiceAgentError(message, error_code="UNKNOWN_ERROR", recoverable=True)
VoiceAgentError(message, error_code, recoverable) ==
    Error("VoiceAgentError", error_code, recoverable, message)

\* The subclasses that fix the error code and pass recoverable on.
SubclassError(class, message, recoverable) ==
    Error(class, ERROR_CODES[class], recoverable, message)

ConfigurationError(message) ==
    Error("ConfigurationError", "CONFIGURATION_ERROR", FALSE, message)

RateLimitError(message) ==
    Error("RateLimitError", "RATE_LIMIT_ERROR", TRUE, message)

\* The error _load_api_key raises when the parameter cannot be read.
load_api_key_error ==
    VoiceAgentError("Failed to load API key from /voice-agent/api-key",
                    "CONFIGURATION_ERROR", TRUE)

\* The error validate_required_env_vars raises.
missing_env_vars_error ==
    ConfigurationError("Missing required environment variables: BEDROCK_MODEL_ID")

\* The error the with_error_handling wrapper raises for an exception e.
unhandled_error(message) == VoiceAgentError(message, "UNHANDLED_ERROR", FALSE)

\* get_session when the durable read may fail: the failure is logged and
\* absent is returned.
get_session_io(st, contact_id, t, fails) ==
    IF fails THEN [ret |-> None, st |-> st] ELSE get_session(st, contact_id, t)

\* add_message when its read or its write may fail: the store it leaves,
\* whether it wrote, and whether the write's ClientError was raised.
add_message_io(st, contact_id, role, content, t, get_fails, put_fails) ==
    LET g == get_session_io(st, contact_id, t, get_fails)
    IN  IF g.ret = None
        THEN [st |-> g.st, wrote |-> FALSE, raised |-> FALSE]
        ELSE IF put_fails
             THEN [st |-> g.st, wrote |-> FALSE, raised |-> TRUE]
             ELSE [st |-> add_message(st, contact_id, role, content, t),
                   wrote |-> TRUE, raised |-> FALSE]

\* end_session when its read or its write may fail; both are swallowed.
end_session_io(st, contact_id, t, get_fails, put_fails) ==
    LET g == get_session_io(st, contact_id, t, get_fails)
    IN  IF g.ret = None \/ put_fails
        THEN [st |-> g.st, wrote |-> FALSE]
        ELSE end_session(st, contact_id, t)

\* ------------------------------------------------------------ error policy
RATE_LIMIT_MESSAGE == "I'm experiencing high demand right now. Please try again in a moment."

REPHRASE_MESSAGE == "I had trouble processing that. Could you please rephrase?"

NEPTUNE_ERROR_MESSAGE == "Let me help you with that."

BRIEF_ISSUE_MESSAGE == "I encountered a brief issue. Please continue."

NON_RECOVERABLE_MESSAGE == "I'm having technical difficulties. Let me connect you with someone who can help."

TIMEOUT_MESSAGE == "I'm taking longer than expected. Let me try a different approach."

INTERNAL_ERROR_MESSAGE == "I apologize, but I'm experiencing technical issues. Let me transfer you to someone who can assist."

ErrorResponse(response, action, error_code, message, recoverable) ==
    [response |-> response, action |-> action,
     error |-> [error_code |-> error_code, message |-> message,
                recoverable |-> recoverable]]

\* handle_error answering an unexpected error with the error's own text.
handle_error_verbose(error) ==
    ErrorResponse(error.message, "transfer", "INTERNAL_ERROR",
                  "An unexpected error occurred", FALSE)

handle_error(error) ==
    IF error.type \in VOICE_AGENT_ERRORS
    THEN IF error.recoverable
         THEN ErrorResponse(
                  CASE error.error_code = "RATE_LIMIT_ERROR" -> RATE_LIMIT_MESSAGE
                    [] error.error_code = "BEDROCK_ERROR" -> REPHRASE_MESSAGE
                    [] error.error_code = "NEPTUNE_ERROR" -> NEPTUNE_ERROR_MESSAGE
                    [] OTHER -> BRIEF_ISSUE_MESSAGE,
                  "continue", error.error_code, error.message, TRUE)
         ELSE ErrorResponse(NON_RECOVERABLE_MESSAGE, "transfer",
                            error.error_code, error.message, FALSE)
    ELSE IF error.type = "TimeoutError"
         THEN ErrorResponse(TIMEOUT_MESSAGE, "continue", "TIMEOUT_ERROR",
                            "Operation timed out", TRUE)
         ELSE ErrorResponse(INTERNAL_ERROR_MESSAGE, "transfer", "INTERNAL_ERROR",
                            "An unexpected error occurred", FALSE)

\* ---------------------------------------------------------------- handlers
\* What a handler did to the store: the writes that succeeded, in order, the
\* reads (lookups) and writes (persists) that failed, by call site.
Trace(writes, failed_gets, failed_puts) ==
    [writes |-> writes, failed_gets |-> failed_gets, failed_puts |-> failed_puts]

Sites(io, sites) == {site \in sites : Fails(io, site)}

\* What a handler hands back: the store it leaves, the exception it raised
\* (NoError when it returned), the response it returned, and its records.
Result(st, raised, response, created, turn_log, completed, wrote, trace) ==
    [st |-> st, raised |-> raised, resp |-> response, created |-> created,
     turn |-> turn_log, completed |-> completed, wrote |-> wrote,
     trace |-> trace]

\* handle_init that retrieves the contact's session when one is stored.
handle_init_reuse(st, contact_id, session_id, caller_history, t, io) ==
    LET g == get_session(st, contact_id, t)
        st1 == IF g.ret = None
               THEN create_session(g.st, contact_id, session_id, t)
               ELSE g.st
        session == IF g.ret = None
                   THEN NewSession(contact_id, session_id, t)
                   ELSE g.ret
        st3 == add_message(st1, contact_id, "assistant", GREETING_MESSAGE, t)
    IN  Result(st3, NoError,
               [response |-> GREETING_MESSAGE,
                action |-> "continue",
                sessionId |-> session.session_id],
               TRUE, NoTurn, <<>>, <<>>, Trace(<<>>, {}, {}))

handle_init(st, contact_id, session_id, caller_history, t, io) ==
    LET create_fails == Fails(io, "create")
        st1 == create_session(st, contact_id, session_id, t)
        session == NewSession(contact_id, session_id, t)
        \* get_caller_history and the update of the session run inside one
        \* try block whose handler logs a warning and goes on
        has_history == cfg.neptune /\ ~io.neptune_fails /\ caller_history > 0
        update_fails == has_history /\ Fails(io, "update")
        st2 == IF has_history /\ ~update_fails
               THEN update_session(st1, contact_id,
                        [session EXCEPT !.caller_history = caller_history], t)
               ELSE st1
        a == add_message_io(st2, contact_id, "assistant", GREETING_MESSAGE, t,
                            Fails(io, "add1.get"), Fails(io, "add1.put"))
        writes == <<"create">>
                  \o (IF has_history /\ ~update_fails THEN <<"update">> ELSE <<>>)
                  \o (IF a.wrote THEN <<"add1.put">> ELSE <<>>)
    IN  IF create_fails
        THEN Result(st, StoreError("create"), None, TRUE, NoTurn, <<>>, <<>>,
                    Trace(<<>>, {}, {"create"}))
        ELSE IF a.raised
        THEN Result(a.st, StoreError("add1.put"), None, TRUE, NoTurn, <<>>, <<>>,
                    Trace(writes,
                          Sites(io, {"add1.get"}),
                          {"add1.put"} \cup (IF update_fails THEN {"update"} ELSE {})))
        ELSE Result(a.st, NoError,
                    [response |-> GREETING_MESSAGE,
                     action |-> "continue",
                     sessionId |-> session.session_id],
                    TRUE, NoTurn, <<>>, <<>>,
                    Trace(writes, Sites(io, {"add1.get"}),
                          IF update_fails THEN {"update"} ELSE {}))

\* The conversation-limit check with a backend "end" left standing.
apply_turn_cap_unless_end(response_text, action, turn_count) ==
    IF turn_count >= cfg.max_turns /\ action # "end"
    THEN [response |-> HANDOFF_MESSAGE, action |-> "transfer"]
    ELSE [response |-> response_text, action |-> action]

\* The conversation-limit check at the end of handle_user_input.
apply_turn_cap(response_text, action, turn_count) ==
    IF turn_count >= cfg.max_turns
    THEN [response |-> HANDOFF_MESSAGE, action |-> "transfer"]
    ELSE [response |-> response_text, action |-> action]

\* The handler's local variable "session": under the in-memory backing it is
\* the very object the dict holds, under the durable backing it is the copy
\* the handler got from get_session or create_session.
LocalSession(st, contact_id, copy) ==
    IF cfg.use_dynamodb THEN copy ELSE Stored(st, contact_id)

\* The text and action of the turn with the first reply's action kept when a
\* follow-up was made.
turn_reply_keep_action(first_reply, second_reply, followup) ==
    IF followup
    THEN [response |-> second_reply.response, action |-> first_reply.action]
    ELSE [response |-> first_reply.response, action |-> first_reply.action]

\* The text and action of the turn: the first reply's, replaced by the
\* follow-up reply's where the follow-up reply has them.
turn_reply(first_reply, second_reply, followup) ==
    IF followup
    THEN [response |-> IF "response" \in DOMAIN second_reply
                       THEN second_reply.response ELSE first_reply.response,
          action |-> IF "action" \in DOMAIN second_reply
                     THEN second_reply.action ELSE first_reply.action]
    ELSE [response |-> first_reply.response, action |-> first_reply.action]

\* The inputs of one handle_user_input: the event's fields, the fresh uuid,
\* what the backend does on the first and on the follow-up invocation, the
\* tools that throw, the clock and the failing services.
Call(contact_id, session_id, user_input, o1, o2, raising, t, io) ==
    [contact_id |-> contact_id, session_id |-> session_id,
     user_input |-> user_input, o1 |-> o1, o2 |-> o2, raising |-> raising,
     t |-> t, io |-> io]

\* The handler's local variables as it starts.
Progress(call) ==
    [at |-> call.t, pre_session |-> None, copy |-> None, created |-> FALSE,
     conversation_history |-> <<>>, tool_calls |-> <<>>,
     raising |-> call.raising, tool_results |-> <<>>, invocations |-> <<>>,
     reply |-> None, stored_turn |-> <<>>, writes |-> <<>>, failed_gets |-> {}]

\* The record of the turn: stop is the call site that raised, or "done".
TurnLog(p, stop) ==
    [at |-> p.at, pre_session |-> p.pre_session, stop |-> stop,
     tool_calls |-> p.tool_calls, raising |-> p.raising,
     tool_results |-> p.tool_results, invocations |-> p.invocations,
     stored_turn |-> p.stored_turn]

\* The handler raising error at call site stop.
Raise(st, p, stop, error) ==
    Result(st, error, None, p.created, TurnLog(p, stop), <<>>, <<>>,
           Trace(p.writes, p.failed_gets,
                 IF error.type = "ClientError" THEN {stop} ELSE {}))

\* The final update of the session and the returned response.
ui_update(call, st, p) ==
    LET turn_count == Len(p.conversation_history) \div 2
        final == apply_turn_cap(p.reply.response, p.reply.action, turn_count)
        session == [LocalSession(st, call.contact_id, p.copy)
                        EXCEPT !.turn_count = turn_count]
    IN  IF Fails(call.io, "update")
        THEN Raise(st, p, "update", StoreError("update"))
        ELSE Result(update_session(st, call.contact_id, session, call.t),
                    NoError,
                    [response |-> final.response,
                     action |-> final.action,
                     sessionId |-> session.session_id,
                     turnCount |-> turn_count],
                    p.created, TurnLog(p, "done"), <<>>, <<>>,
                    Trace(Append(p.writes, "update"), p.failed_gets, {}))

\* After add_message of the assistant's text (a2): the turn is stored in
\* the graph store, whose failure is logged and ignored.
ui_store_reply(call, a2, p) ==
    IF a2.raised
    THEN Raise(a2.st, p, "add2.put", StoreError("add2.put"))
    ELSE ui_update(call, a2.st,
             [p EXCEPT !.writes = IF a2.wrote THEN Append(@, "add2.put") ELSE @,
                       !.stored_turn =
                           IF cfg.neptune /\ ~call.io.neptune_fails
                           THEN <<call.user_input, p.reply.response>>
                           ELSE <<>>])

\* The text and action of the turn are chosen and the text is appended.
ui_add_reply(call, st, p, followup) ==
    LET reply == turn_reply(p.invocations[1].reply,
                            p.invocations[Len(p.invocations)].reply, followup)
    IN  ui_store_reply(call,
            add_message_io(st, call.contact_id, "assistant", reply.response,
                           call.t, Fails(call.io, "add2.get"),
                           Fails(call.io, "add2.put")),
            [p EXCEPT !.reply = reply,
                      !.failed_gets = @ \cup Sites(call.io, {"add2.get"})])

\* The follow-up invocation, made when tools were called and gave results.
ui_followup(call, st, p) ==
    IF p.tool_calls # <<>> /\ p.tool_results # <<>>
    THEN ui_add_reply(call, st,
             [p EXCEPT !.invocations =
                  Append(@, Invocation(p.conversation_history, p.tool_results,
                                       call.o2))],
             TRUE)
    ELSE ui_add_reply(call, st, p, FALSE)

\* The tool calls of the first reply are executed.
ui_tools(call, st, p) ==
    LET first_reply == p.invocations[1].reply
        tool_calls == IF "tool_calls" \in DOMAIN first_reply
                      THEN first_reply.tool_calls ELSE <<>>
    IN  ui_followup(call, st,
            [p EXCEPT !.tool_calls = tool_calls,
                      !.tool_results = execute_tools(tool_calls, call.raising)])

\* The first invocation and the publish of its latency.
ui_invoke(call, st, p) ==
    LET first == Invocation(p.conversation_history, <<>>, call.o1)
    IN  IF call.io.metrics_llm = "Exception"
        THEN Raise(st, [p EXCEPT !.invocations = <<first>>], "metrics",
                   MetricsError)
        ELSE ui_tools(call, st, [p EXCEPT !.invocations = <<first>>])

\* After add_message of the user's utterance (a1): the history is read.
ui_history(call, a1, p) ==
    IF a1.raised
    THEN Raise(a1.st, p, "add1.put", StoreError("add1.put"))
    ELSE ui_invoke(call, a1.st,
             [p EXCEPT !.writes = IF a1.wrote THEN Append(@, "add1.put") ELSE @,
                       !.failed_gets = @ \cup Sites(call.io, {"history.get"}),
                       !.conversation_history =
                           IF Fails(call.io, "history.get") THEN <<>>
                           ELSE get_conversation_history(a1.st, call.contact_id,
                                                         call.t)])

\* The lookup's failure raised instead of read as absent.
ui_session_strict(call, g, p) ==
    LET created == g.ret = None
        q == [p EXCEPT !.pre_session = g.ret,
                       !.created = created,
                       !.failed_gets = Sites(call.io, {"get"})]
    IN  IF Fails(call.io, "get")
        THEN Raise(g.st, q, "get", StoreError("get"))
        ELSE IF created /\ Fails(call.io, "create")
        THEN Raise(g.st, q, "create", StoreError("create"))
        ELSE ui_history(call,
                 add_message_io(IF created
                                THEN create_session(g.st, call.contact_id,
                                                    call.session_id, call.t)
                                ELSE g.st,
                                call.contact_id, "user", call.user_input, call.t,
                                Fails(call.io, "add1.get"),
                                Fails(call.io, "add1.put")),
                 [q EXCEPT !.copy = IF created
                                    THEN NewSession(call.contact_id,
                                                    call.session_id, call.t)
                                    ELSE g.ret,
                           !.writes = IF created THEN <<"create">> ELSE <<>>,
                           !.failed_gets = @ \cup Sites(call.io, {"add1.get"})])

\* After the lookup (g): get or create the session, add the user message.
ui_session(call, g, p) ==
    LET created == g.ret = None
        q == [p EXCEPT !.pre_session = g.ret,
                       !.created = created,
                       !.failed_gets = Sites(call.io, {"get"})]
    IN  IF created /\ Fails(call.io, "create")
        THEN Raise(g.st, q, "create", StoreError("create"))
        ELSE ui_history(call,
                 add_message_io(IF created
                                THEN create_session(g.st, call.contact_id,
                                                    call.session_id, call.t)
                                ELSE g.st,
                                call.contact_id, "user", call.user_input, call.t,
                                Fails(call.io, "add1.get"),
                                Fails(call.io, "add1.put")),
                 [q EXCEPT !.copy = IF created
                                    THEN NewSession(call.contact_id,
                                                    call.session_id, call.t)
                                    ELSE g.ret,
                           !.writes = IF created THEN <<"create">> ELSE <<>>,
                           !.failed_gets = @ \cup Sites(call.io, {"add1.get"})])

handle_user_input(st, contact_id, session_id, user_input, o1, o2, raising, t, io) ==
    ui_session(Call(contact_id, session_id, user_input, o1, o2, raising, t, io),
               get_session_io(st, contact_id, t, Fails(io, "get")),
               Progress(Call(contact_id, session_id, user_input, o1, o2,
                             raising, t, io)))

handle_end(st, contact_id, t, io) ==
    LET g == get_session_io(st, contact_id, t, Fails(io, "get"))
        e == end_session_io(g.st, contact_id, t,
                            Fails(io, "end.get"), Fails(io, "end.put"))
        ended == get_session_io(g.st, contact_id, t, Fails(io, "end.get")).ret
    IN  Result(e.st, NoError,
               [response |-> GOODBYE_MESSAGE, action |-> "end"],
               FALSE, NoTurn,
               IF g.ret # None /\ cfg.neptune /\ ~io.neptune_fails
               THEN <<g.ret.session_id>> ELSE <<>>,
               IF e.wrote THEN <<ended.session_id>> ELSE <<>>,
               Trace(IF e.wrote THEN <<"end.put">> ELSE <<>>,
                     Sites(io, {"get", "end.get"}),
                     IF ended # None THEN Sites(io, {"end.put"}) ELSE {}))

\* What the caller gets when lambda_handler itself raises.
Unhandled == [unhandled |-> TRUE]

\* What lambda_handler does with what a handler returned or raised (h): the
\* error policy answers an exception, and the publish of the total latency in
\* the finally block may raise, which replaces the return value.
lambda_return(h, io) ==
    [h EXCEPT !.resp = IF io.metrics_total = "Exception" THEN Unhandled
                       ELSE IF h.raised = NoError THEN h.resp
                       ELSE handle_error(h.raised)]

\* lambda_handler: the dispatch on the event type.
lambda_handler(st, event_type, contact_id, session_id, user_input, caller_history, o1, o2, raising, t, io) ==
    lambda_return(
        CASE event_type = "init" ->
                 handle_init(st, contact_id, session_id, caller_history, t, io)
          [] event_type = "end" ->
                 handle_end(st, contact_id, t, io)
          [] OTHER ->
                 handle_user_input(st, contact_id, session_id, user_input,
                                   o1, o2, raising, t, io),
        io)

\* The same invocation with the graph store and the metrics sink working.
WithoutCollaboratorFailure(io) == Env(io.fails, FALSE, "ok", "ok")

CollaboratorFails(io) == io # WithoutCollaboratorFailure(io)

\* ------------------------------------------------------------------ events
\* The record of the event handled last: the event, what its handler did to
\* the store, whether a collaborator failed while it ran, and the response
\* the same event gets when no collaborator fails.
Handled(type, c, user_input, h, io, unaffected) ==
    [type |-> type, contact |-> c, user_input |-> user_input,
     trace |-> h.trace, collaborator_failed |-> CollaboratorFails(io),
     unaffected |-> unaffected]

\* The state after an invocation that did h, where unaffected is the
\* response the same invocation gives when no collaborator fails.
Commit(type, c, user_input, io, h, unaffected) ==
    /\ sessions' = h.st.sessions
    /\ table' = h.st.table
    /\ resp' = h.resp
    /\ turn' = h.turn
    /\ next_uuid' = IF h.created THEN next_uuid + 1 ELSE next_uuid
    /\ complete_calls' = complete_calls \o h.completed
    /\ end_writes' = end_writes \o h.wrote
    /\ last' = Handled(type, c, user_input, h, io, unaffected)
    /\ events' = events + 1
    /\ UNCHANGED <<cfg, now, appended, inflight>>

Invoke(type, c, user_input, caller_history, o1, o2, raising, io) ==
    Commit(type, c, user_input, io,
           lambda_handler(Store, type, c, next_uuid, user_input, caller_history,
                          o1, o2, raising, now, io),
           lambda_handler(Store, type, c, next_uuid, user_input, caller_history,
                          o1, o2, raising, now,
                          WithoutCollaboratorFailure(io)).resp)

InitEvent(c, caller_history, io) ==
    /\ cfg.neptune \/ caller_history = 0
    /\ Invoke("init", c, "", caller_history, NoOutcome, NoOutcome, {}, io)

\* A follow-up outcome is drawn exactly when the first reply makes the
\* handler call the backend again.
UserInputEvent(c, user_input, o1, o2, raising, io) ==
    /\ (o2 = NoOutcome) <=> (o1.kind # "ok" \/ o1.tool_calls = <<>>)
    /\ raising \subseteq {i \in 1..Len(o1.tool_calls) :
                              o1.tool_calls[i].name \in TOOL_NAMES}
    /\ Invoke("user_input", c, user_input, 0, o1, o2, raising, io)

\* An event whose eventType is none of init, user_input and end.
UnknownEvent(c, user_input, o1) ==
    /\ o1.kind # "ok" \/ o1.tool_calls = <<>>
    /\ Invoke("unknown", c, user_input, 0, o1, NoOutcome, {}, NoFaults)

EndEvent(c, io) ==
    Invoke("end", c, "", 0, NoOutcome, NoOutcome, {}, io)

\* ------------------------------------------- the conversation lifecycle
\* Identifiers the backend gives its tool calls.
ToolUseId(i) == 100 + i

TRANSFER_CALL == ToolCall(ToolUseId(1), "transfer_to_agent")

LifecycleFirst ==
    {Outcome("ok", PLAIN_TEXT, <<>>, "end_turn"),
     Outcome("ok", CLOSING_TEXT, <<>>, "end_turn"),
     Outcome("ok", PLAIN_TEXT, <<TRANSFER_CALL>>, "tool_use"),
     Failure("ThrottlingException")}

LifecycleFollowup ==
    {NoOutcome,
     Outcome("ok", PLAIN_TEXT, <<>>, "end_turn"),
     Outcome("ok", CLOSING_TEXT, <<>>, "end_turn")}

Next ==
    \/ Tick
    \/ /\ events < MaxEvents
       /\ \E c \in Contacts, caller_history \in 0..1 : InitEvent(c, caller_history, NoFaults)
    \/ /\ events < MaxEvents
       /\ \E c \in Contacts, user_input \in UserInputs,
             o1 \in LifecycleFirst, o2 \in LifecycleFollowup :
              UserInputEvent(c, user_input, o1, o2, {}, NoFaults)
    \/ /\ events < MaxEvents
       /\ \E c \in Contacts : EndEvent(c, NoFaults)

Spec == Init /\ [][Next]_vars

\* ------------------------------------------------- the tool round trip
RequestedNames == {"search_knowledge_base", "transfer_to_agent", "unknown_tool"}

ToolCallSeqs ==
    UNION {{[i \in 1..n |-> ToolCall(ToolUseId(i), names[i])] :
                names \in [1..n -> RequestedNames]} : n \in 0..MaxTools}

\* The knowledge-base search is the tool whose implementation calls out.
MayRaise(tool_calls) ==
    {i \in 1..Len(tool_calls) : tool_calls[i].name = "search_knowledge_base"}

\* The ways the backend call fails: each ClientError code, and timeouts
\* raised as the built-in TimeoutError or as botocore's ReadTimeoutError.
BackendFailures == CLIENT_ERROR_CODES \cup {"TimeoutError", "ReadTimeoutError"}

ToolsFirst ==
    {Outcome("ok", text, <<>>, "end_turn") : text \in BackendTexts}
    \cup {Outcome("ok", PLAIN_TEXT, tool_calls, stop_reason) :
              tool_calls \in ToolCallSeqs \ {<<>>},
              stop_reason \in {"tool_use", "end_turn"}}
    \cup {Failure(kind) : kind \in BackendFailures}

ToolsFollowup ==
    {NoOutcome,
     Outcome("ok", CLOSING_TEXT, <<>>, "end_turn"),
     Outcome("ok", TRANSFER_TEXT,
             <<ToolCall(ToolUseId(9), "search_knowledge_base")>>, "tool_use"),
     Failure("ModelStreamErrorException")}

ToolsUserInputs == {"what is my balance"}

InitTools ==
    /\ Init
    /\ cfg.max_history_length = MaxCap
    /\ cfg.max_turns = MaxTurns

NextTools ==
    \/ /\ events < MaxToolEvents
       /\ \E c \in Contacts : InitEvent(c, 0, NoFaults)
    \/ /\ events < MaxToolEvents
       /\ \E c \in Contacts, user_input \in ToolsUserInputs,
             o1 \in ToolsFirst, o2 \in ToolsFollowup :
              \E raising \in SUBSET MayRaise(o1.tool_calls) :
                  UserInputEvent(c, user_input, o1, o2, raising, NoFaults)

SpecTools == InitTools /\ [][NextTools]_vars

\* ------------------------------------------- turns with failing services
InitSites == {"create", "update", "add1.get", "add1.put"}

TurnSites == {"get", "create", "add1.get", "add1.put", "history.get",
              "add2.get", "add2.put", "update"}

EndSites == {"get", "end.get", "end.put"}

\* One service failing during an invocation: one store call, the graph
\* store, or the CloudWatch call of one metrics publish.
FaultEnvs(sites, publishes_llm) ==
    {NoFaults}
    \cup {Env({site}, FALSE, "ok", "ok") : site \in IF cfg.use_dynamodb
                                                    THEN sites ELSE {}}
    \cup (IF cfg.neptune THEN {Env({}, TRUE, "ok", "ok")} ELSE {})
    \cup {Env({}, FALSE, m, "ok") :
              m \in IF publishes_llm THEN {"ClientError", "Exception"} ELSE {}}
    \cup {Env({}, FALSE, "ok", m) : m \in {"ClientError", "Exception"}}

FaultsFirst ==
    {Outcome("ok", PLAIN_TEXT, <<>>, "end_turn"),
     Outcome("ok", PLAIN_TEXT, <<TRANSFER_CALL>>, "tool_use"),
     Failure("ThrottlingException"),
     Failure("TimeoutError")}

FaultsFollowup ==
    {NoOutcome,
     Outcome("ok", CLOSING_TEXT, <<>>, "end_turn"),
     Failure("AccessDeniedException")}

FaultsUserInputs == {"what is my balance"}

InitFaults ==
    /\ Init
    /\ cfg.max_history_length = MaxCap
    /\ cfg.max_turns = MaxTurns

NextFaults ==
    \/ /\ events < MaxFaultEvents
       /\ \E c \in Contacts, caller_history \in 0..1,
             io \in FaultEnvs(InitSites, FALSE) :
              InitEvent(c, caller_history, io)
    \/ /\ events < MaxFaultEvents
       /\ \E c \in Contacts, user_input \in FaultsUserInputs,
             o1 \in FaultsFirst, o2 \in FaultsFollowup,
             io \in FaultEnvs(TurnSites, TRUE) :
              UserInputEvent(c, user_input, o1, o2, {}, io)
    \/ /\ events < MaxFaultEvents
       /\ \E c \in Contacts, user_input \in FaultsUserInputs,
             o1 \in FaultsFirst :
              UnknownEvent(c, user_input, o1)
    \/ /\ events < MaxFaultEvents
       /\ \E c \in Contacts, io \in FaultEnvs(EndSites, FALSE) :
              EndEvent(c, io)

SpecFaults == InitFaults /\ [][NextFaults]_vars

\* ------------------------------ concurrent user_input turns of one contact
\* Each invocation runs handle_user_input in its own process against the
\* durable table; every get_item and put_item is one atomic step and nothing
\* orders the steps of different invocations.
\* The two invocations, and what the caller said in each event.
Procs == {"p1", "p2"}

RaceContact == "c1"

Utterance == [p1 |-> "what is my balance", p2 |-> "bye"]

\* The session an init event leaves for the contact.
GreetedStore ==
    handle_init([sessions |-> [c \in Contacts |-> None],
                 table |-> [c \in Contacts |-> None]],
                RaceContact, 1, 0, 0, NoFaults).st

\* The local variables of one invocation: contact_id the contact of its
\* event, pc the store access it makes next, start the contact's stored
\* session as the invocation began, session the handler's copy, fetched the
\* copy add_message got, role and content the message add_message is adding,
\* action the backend's verdict, put the item it wrote last, appended the
\* entries it added, clobbered whether one of its writes replaced an item
\* written after its read, resp the response it returned.
Proc(contact_id, user_input) ==
    [contact_id |-> contact_id, user_input |-> user_input, pc |-> "lookup",
     start |-> Stored(Store, contact_id), session |-> None,
     fetched |-> None, role |-> "user", content |-> user_input,
     action |-> "none", conversation_history |-> <<>>, put |-> None,
     appended |-> <<>>, clobbered |-> FALSE, resp |-> None]

Running(p, pc) == p \in DOMAIN inflight /\ inflight[p].pc = pc

SetProc(p, proc) ==
    inflight' = [q \in DOMAIN inflight |-> IF q = p THEN proc ELSE inflight[q]]

RaceIdle == UNCHANGED <<cfg, now, events, last, resp, turn, complete_calls,
                        end_writes, appended>>

\* A user_input event arrives and its invocation starts.
RaceBegin(p) ==
    /\ p \notin DOMAIN inflight
    /\ inflight' = [q \in DOMAIN inflight \cup {p} |->
                        IF q = p THEN Proc(RaceContact, Utterance[p])
                        ELSE inflight[q]]
    /\ UNCHANGED <<sessions, table, next_uuid>>
    /\ RaceIdle

\* session = session_manager.get_session(contact_id)
RaceLookup(p) ==
    /\ Running(p, "lookup")
    /\ LET g == get_session(Store, inflight[p].contact_id, now)
       IN  /\ sessions' = g.st.sessions
           /\ table' = g.st.table
           /\ SetProc(p, [inflight[p] EXCEPT
                              !.session = g.ret,
                              !.pc = IF g.ret = None THEN "create" ELSE "add_get"])
    /\ UNCHANGED next_uuid
    /\ RaceIdle

\* session = session_manager.create_session(contact_id, phone_number)
RaceCreate(p) ==
    /\ Running(p, "create")
    /\ LET st == create_session(Store, inflight[p].contact_id, next_uuid, now)
       IN  /\ sessions' = st.sessions
           /\ table' = st.table
    /\ SetProc(p, [inflight[p] EXCEPT
                       !.session = NewSession(inflight[p].contact_id, next_uuid, now),
                       !.put = NewSession(inflight[p].contact_id, next_uuid, now),
                       !.pc = "add_get"])
    /\ next_uuid' = next_uuid + 1
    /\ RaceIdle

\* The pc after add_message returns: the backend is invoked after the user's
\* message, the session is updated after the assistant's.
AfterAdd(role) == IF role = "user" THEN "invoke" ELSE "update"

\* add_message: session = self.get_session(contact_id)
RaceAddGet(p) ==
    /\ Running(p, "add_get")
    /\ LET g == get_session(Store, inflight[p].contact_id, now)
       IN  /\ sessions' = g.st.sessions
           /\ table' = g.st.table
           /\ SetProc(p, [inflight[p] EXCEPT
                              !.fetched = g.ret,
                              !.pc = IF g.ret = None
                                     THEN AfterAdd(inflight[p].role)
                                     ELSE "add_put"])
    /\ UNCHANGED next_uuid
    /\ RaceIdle

\* add_message: the append, the trim and update_session
RaceAddPut(p) ==
    /\ Running(p, "add_put")
    /\ LET proc == inflight[p]
           message == Message(proc.role, proc.content)
           item == [proc.fetched EXCEPT !.conversation_history =
                        TrimHistory(Append(@, message))]
           st == update_session(Store, proc.contact_id, item, now)
       IN  /\ sessions' = st.sessions
           /\ table' = st.table
           /\ SetProc(p, [proc EXCEPT
                              !.put = Refreshed(item, now),
                              !.appended = Append(@, message),
                              !.clobbered =
                                  @ \/ Stored(Store, proc.contact_id) # proc.fetched,
                              !.pc = AfterAdd(proc.role)])
    /\ UNCHANGED next_uuid
    /\ RaceIdle

\* What the backend answers in these invocations.
RaceOutcome == Outcome("ok", PLAIN_TEXT, <<>>, "end_turn")

\* get_conversation_history and the backend's reply, which becomes the
\* message add_message adds next.
RaceInvoke(p) ==
    /\ Running(p, "invoke")
    /\ LET g == get_session(Store, inflight[p].contact_id, now)
           conversation_history ==
               get_conversation_history(Store, inflight[p].contact_id, now)
           reply == Invocation(conversation_history, <<>>, RaceOutcome).reply
       IN  /\ sessions' = g.st.sessions
           /\ table' = g.st.table
           /\ SetProc(p, [inflight[p] EXCEPT
                              !.conversation_history = conversation_history,
                              !.role = "assistant",
                              !.content = reply.response,
                              !.action = reply.action,
                              !.pc = "add_get"])
    /\ UNCHANGED next_uuid
    /\ RaceIdle

\* The conversation-limit check, session["turn_count"] = turn_count,
\* update_session(contact_id, session) and the return.
RaceUpdate(p) ==
    /\ Running(p, "update")
    /\ LET proc == inflight[p]
           turn_count == Len(proc.conversation_history) \div 2
           item == [LocalSession(Store, proc.contact_id, proc.session) EXCEPT
                        !.turn_count = turn_count]
           st == update_session(Store, proc.contact_id, item, now)
           final == apply_turn_cap(proc.content, proc.action, turn_count)
       IN  /\ sessions' = st.sessions
           /\ table' = st.table
           /\ SetProc(p, [proc EXCEPT
                              !.put = Refreshed(item, now),
                              !.resp = [response |-> final.response,
                                        action |-> final.action,
                                        sessionId |-> item.session_id,
                                        turnCount |-> turn_count],
                              !.pc = "done"])
    /\ UNCHANGED next_uuid
    /\ RaceIdle

\* The table is shared by the invocations, so the backing is the durable
\* one; the cap leaves room for the greeting and the entries of every
\* invocation; the contact has either no session yet or the one its init
\* event left.
InitRace ==
    /\ cfg = [use_dynamodb |-> TRUE,
              max_history_length |-> Cardinality(Procs) + 1,
              max_turns |-> MaxTurns, neptune |-> FALSE]
    /\ now = 0
    /\ next_uuid = 2
    /\ sessions = [c \in Contacts |-> None]
    /\ table \in {[c \in Contacts |-> None], GreetedStore.table}
    /\ events = 0
    /\ last = NoEvent
    /\ resp = None
    /\ turn = NoTurn
    /\ complete_calls = <<>>
    /\ end_writes = <<>>
    /\ appended = [c \in Contacts |-> <<>>]
    /\ inflight = Idle

NextRace ==
    \/ \E p \in Procs : RaceBegin(p)
    \/ \E p \in Procs : RaceLookup(p)
    \/ \E p \in Procs : RaceCreate(p)
    \/ \E p \in Procs : RaceAddGet(p)
    \/ \E p \in Procs : RaceAddPut(p)
    \/ \E p \in Procs : RaceInvoke(p)
    \/ \E p \in Procs : RaceUpdate(p)

SpecRace == InitRace /\ [][NextRace]_vars

\* --------------------------- concurrent turns of different contacts
\* Two invocations run at once, each for its own contact; the steps are
\* those of the invocations above.
ParContacts == {"c1", "c2"}

ParContact == [p1 |-> "c1", p2 |-> "c2"]

EmptyStore ==
    [sessions |-> [c \in ParContacts |-> None],
     table |-> [c \in ParContacts |-> None]]

\* The store after an init event of each contact in greeted.
ParStart(greeted) ==
    LET s1 == IF "c1" \in greeted
              THEN handle_init(EmptyStore, "c1", 1, 0, 0, NoFaults).st
              ELSE EmptyStore
    IN  IF "c2" \in greeted
        THEN handle_init(s1, "c2", 2, 0, 0, NoFaults).st
        ELSE s1

ParBegin(p) ==
    /\ p \notin DOMAIN inflight
    /\ inflight' = [q \in DOMAIN inflight \cup {p} |->
                        IF q = p THEN Proc(ParContact[p], Utterance[p])
                        ELSE inflight[q]]
    /\ UNCHANGED <<sessions, table, next_uuid>>
    /\ RaceIdle

InitPar ==
    /\ cfg \in Configs
    /\ ~cfg.neptune
    /\ now = 0
    /\ next_uuid = 3
    /\ \E greeted \in SUBSET ParContacts :
           /\ sessions = ParStart(greeted).sessions
           /\ table = ParStart(greeted).table
    /\ events = 0
    /\ last = NoEvent
    /\ resp = None
    /\ turn = NoTurn
    /\ complete_calls = <<>>
    /\ end_writes = <<>>
    /\ appended = [c \in Contacts |-> <<>>]
    /\ inflight = Idle

NextPar ==
    \/ \E p \in Procs : ParBegin(p)
    \/ \E p \in Procs : RaceLookup(p)
    \/ \E p \in Procs : RaceCreate(p)
    \/ \E p \in Procs : RaceAddGet(p)
    \/ \E p \in Procs : RaceAddPut(p)
    \/ \E p \in Procs : RaceInvoke(p)
    \/ \E p \in Procs : RaceUpdate(p)

SpecPar == InitPar /\ [][NextPar]_vars

\* ----------------------------------- the two backings, side by side
\* Two deployments, one with the in-memory dict and one with the durable
\* table, are sent the same events with the same backend outputs: each event
\* is handled first by the in-memory deployment (on sessions), then by the
\* durable one (on table); cfg.use_dynamodb says whose turn it is, and both
\* draw the same uuid.
TwinEvent(type, c, user_input, caller_history, o1, o2) ==
    [type |-> type, contact |-> c, user_input |-> user_input,
     caller_history |-> caller_history, o1 |-> o1, o2 |-> o2]

\* What a deployment shows after an event: the response it returned and the
\* session a lookup of the contact now returns.
TwinRecord(h, c) == [resp |-> h.resp, session |-> get_session(h.st, c, now).ret]

TwinHandle(e) ==
    lambda_handler(Store, e.type, e.contact, next_uuid, e.user_input,
                   e.caller_history, e.o1, e.o2, {}, now, NoFaults)

\* Both deployments have handled every event sent so far.
TwinIdle == IF inflight = Idle THEN TRUE ELSE inflight.twin.pc = "done"

\* The deployment with the given backing handles event e, doing h.
TwinStep(e, h, backing) ==
    /\ sessions' = h.st.sessions
    /\ table' = h.st.table
    /\ resp' = h.resp
    /\ turn' = h.turn
    /\ complete_calls' = complete_calls \o h.completed
    /\ end_writes' = end_writes \o h.wrote
    /\ last' = Handled(e.type, e.contact, e.user_input, h, NoFaults, h.resp)
    /\ inflight' =
           [twin |-> [event |-> e,
                      pc |-> IF backing = "memory" THEN "durable" ELSE "done",
                      memory |-> IF backing = "memory"
                                 THEN TwinRecord(h, e.contact)
                                 ELSE inflight.twin.memory,
                      durable |-> IF backing = "durable"
                                  THEN TwinRecord(h, e.contact)
                                  ELSE None]]
    /\ cfg' = [cfg EXCEPT !.use_dynamodb = (backing = "memory")]
    /\ next_uuid' = IF backing = "durable" THEN next_uuid + 1 ELSE next_uuid
    /\ events' = IF backing = "durable" THEN events + 1 ELSE events
    /\ UNCHANGED <<now, appended>>

TwinMemory(e) ==
    /\ ~cfg.use_dynamodb
    /\ TwinIdle
    /\ events < MaxTwinEvents
    /\ TwinStep(e, TwinHandle(e), "memory")

TwinDurable ==
    /\ cfg.use_dynamodb
    /\ ~TwinIdle
    /\ TwinStep(inflight.twin.event, TwinHandle(inflight.twin.event), "durable")

TwinTick == TwinIdle /\ Tick

InitTwin ==
    /\ Init
    /\ ~cfg.use_dynamodb
    /\ ~cfg.neptune
    /\ cfg.max_history_length = MaxCap

NextTwin ==
    \/ TwinTick
    \/ \E c \in Contacts :
           TwinMemory(TwinEvent("init", c, "", 0, NoOutcome, NoOutcome))
    \/ \E c \in Contacts, user_input \in UserInputs,
          o1 \in LifecycleFirst, o2 \in LifecycleFollowup :
           /\ (o2 = NoOutcome) <=> (o1.kind # "ok" \/ o1.tool_calls = <<>>)
           /\ TwinMemory(TwinEvent("user_input", c, user_input, 0, o1, o2))
    \/ \E c \in Contacts :
           TwinMemory(TwinEvent("end", c, "", 0, NoOutcome, NoOutcome))
    \/ TwinDurable

SpecTwin == InitTwin /\ [][NextTwin]_vars

\* ----------------------------------------- the action of one response
\* _build_response applied to one backend response: any of the texts, any
\* sequence of tool calls and any stop reason.
STOP_REASONS == {"tool_use", "end_turn", "max_tokens"}

Built(text, tool_calls, stop_reason) ==
    [type |-> "build_response", text |-> text, tool_calls |-> tool_calls,
     stop_reason |-> stop_reason]

BuildResponse(text, tool_calls, stop_reason) ==
    /\ events = 0
    /\ events' = 1
    /\ last' = Built(text, tool_calls, stop_reason)
    /\ resp' = build_response(text, tool_calls, stop_reason)
    /\ UNCHANGED <<cfg, now, next_uuid, sessions, table, turn, complete_calls,
                   end_writes, appended, inflight>>

InitAction ==
    /\ Init
    /\ cfg = [use_dynamodb |-> FALSE, max_history_length |-> MaxCap,
              max_turns |-> MaxTurns, neptune |-> FALSE]

NextAction ==
    \E text \in CueTexts, tool_calls \in ToolCallSeqs,
       stop_reason \in STOP_REASONS :
        BuildResponse(text, tool_calls, stop_reason)

SpecAction == InitAction /\ [][NextAction]_vars

\* ------------------------------------------- errors at the top level
\* An exception of any kind escapes a handler and lambda_handler answers it
\* through handle_error.
ErrorMessages == {"Rate limit exceeded", "connection reset", "'session_id'"}

OTHER_EXCEPTIONS == {"TimeoutError", "ReadTimeoutError", "ClientError", "KeyError"}

\* The errors the code can raise: each error class constructed with each
\* recoverable flag its constructor accepts, the errors of the raise sites,
\* and exceptions of other classes.
RaisedErrors ==
    {VoiceAgentError(message, "UNKNOWN_ERROR", recoverable) :
         message \in ErrorMessages, recoverable \in BOOLEAN}
    \cup UNION {{SubclassError(class, message, recoverable) :
                     message \in ErrorMessages, recoverable \in BOOLEAN} :
                class \in DOMAIN ERROR_CODES}
    \cup {ConfigurationError(message) : message \in ErrorMessages}
    \cup {RateLimitError(message) : message \in ErrorMessages}
    \cup {unhandled_error(message) : message \in ErrorMessages}
    \cup {load_api_key_error, missing_env_vars_error}
    \cup {Error(class, "", FALSE, message) :
              class \in OTHER_EXCEPTIONS, message \in ErrorMessages}

ErrorEscapes(error) ==
    /\ events < MaxErrorEvents
    /\ events' = events + 1
    /\ last' = [type |-> "error", error |-> error]
    /\ resp' = lambda_return(Result(Store, error, None, FALSE, NoTurn, <<>>,
                                    <<>>, Trace(<<>>, {}, {})), NoFaults).resp
    /\ UNCHANGED <<cfg, now, next_uuid, sessions, table, turn, complete_calls,
                   end_writes, appended, inflight>>

InitErrors ==
    /\ Init
    /\ cfg = [use_dynamodb |-> FALSE, max_history_length |-> MaxCap,
              max_turns |-> MaxTurns, neptune |-> FALSE]

NextErrors == \E error \in RaisedErrors : ErrorEscapes(error)

SpecErrors == InitErrors /\ [][NextErrors]_vars

\* ================================================================ claims
Live(c) == get_session(Store, c, now).ret

IsTurn == last.type = "user_input"

FinalReply == turn.invocations[Len(turn.invocations)].reply

Count(seq, x) == Cardinality({i \in 1..Len(seq) : seq[i] = x})

\* C1: after N add_message calls on a live session the stored history is
\* exactly the last min(N, 2*cap) appended entries, in their original order,
\* for every cap including 0.
C1_HistoryIsLastAppended ==
    \A c \in Contacts :
        Live(c) # None =>
            Live(c).conversation_history =
                LastN(appended[c],
                      Min(Len(appended[c]), 2 * cfg.max_history_length))

\* C2: get_session never returns a session whose ttl is earlier than the
\* current time, under either backing, ended or not; this holds of the
\* lookup in every state and of the lookup each user_input turn made.
C2_ExpiredNeverReturned ==
    /\ \A c \in Contacts : Live(c) # None => Live(c).ttl >= now
    /\ (IsTurn /\ turn.pre_session # None) => turn.pre_session.ttl >= turn.at

C2_Witness ==
    \E c \in Contacts :
        /\ Stored(Store, c) # None
        /\ Stored(Store, c).ttl < now
        /\ Live(c) = None

\* C3: whenever the turn count computed for a user_input turn is at least
\* MAX_CONVERSATION_TURNS, the returned action is transfer and the returned
\* response is the fixed hand-off message, whatever the backend produced.
C3_TurnCapOverride ==
    (IsTurn /\ resp.turnCount >= cfg.max_turns) =>
        (resp.action = "transfer" /\ resp.response = HANDOFF_MESSAGE)

C3_Witness ==
    /\ IsTurn
    /\ resp.turnCount >= cfg.max_turns
    /\ FinalReply.action = "end"
    /\ resp.action = "transfer"

\* C4: for an existing session whose stored turn count is max-1, the next
\* user_input returns the hand-off message and action transfer, for every
\* combination of the turn maximum and the history cap.
C4_HandOffAfterMaxMinusOne ==
    (/\ IsTurn
     /\ turn.pre_session # None
     /\ turn.pre_session.turn_count = cfg.max_turns - 1)
        => (resp.response = HANDOFF_MESSAGE /\ resp.action = "transfer")

\* C5: a user_input turn invokes the backend once or twice; a first reply
\* that requests tools is followed by exactly one more invocation, made with
\* the tool results attached and no tool definitions offered; only the first
\* reply's tool calls are executed, never the follow-up's.
C5_OneFollowUp ==
    IsTurn =>
        /\ Len(turn.invocations) \in {1, 2}
        /\ turn.invocations[1].tools_offered
        /\ (turn.tool_calls # <<>>) <=> (Len(turn.invocations) = 2)
        /\ Len(turn.tool_results) = Len(turn.tool_calls)
        /\ \A i \in 1..Len(turn.tool_results) :
               \E j \in 1..Len(turn.invocations[1].reply.tool_calls) :
                   turn.tool_results[i].tool_use_id =
                       turn.invocations[1].reply.tool_calls[j].id
        /\ Len(turn.invocations) = 2 =>
               /\ ~turn.invocations[2].tools_offered
               /\ Len(turn.invocations[2].messages) =
                      Len(turn.invocations[1].messages) + 1

C5_Witness ==
    /\ IsTurn
    /\ Len(turn.invocations) = 2
    /\ "tool_calls" \in DOMAIN FinalReply
    /\ FinalReply.tool_calls # <<>>
    /\ FinalReply.stop_reason = "tool_use"

\* C6: a second end for the same contact has no completion side effect beyond
\* the first: no session gets its completed record written twice and none is
\* passed to the memory store's complete_session twice.
C6_EndIsIdempotent ==
    \A sid \in 1..next_uuid :
        /\ Count(complete_calls, sid) <= 1
        /\ Count(end_writes, sid) <= 1

\* C7: after end, get_session returns absent under either backing, so a
\* completed session is never returned by a lookup and never the session a
\* later user_input turn continues.
C7_CompletedNeverReturned ==
    /\ \A c \in Contacts : Live(c) # None => Live(c).status # "completed"
    /\ (IsTurn /\ turn.pre_session # None) =>
           turn.pre_session.status # "completed"

C9_TurnAppendsExactlyTwo ==
    IsTurn =>
        LET c == last.contact
            pre == IF turn.pre_session = None THEN <<>>
                   ELSE turn.pre_session.conversation_history
        IN  /\ Stored(Store, c) # None
            /\ Stored(Store, c).conversation_history =
                   TrimHistory(pre \o <<Message("user", last.user_input),
                                        Message("assistant", FinalReply.response)>>)

\* C10: execute_tools returns one result per tool call, in call order, each
\* echoing its call's identifier; an unknown tool or a throwing tool gives an
\* error result for that call only; these results, unchanged and in order,
\* are what the follow-up invocation carries.
C10_OneResultPerCall ==
    IsTurn =>
        /\ Len(turn.tool_results) = Len(turn.tool_calls)
        /\ \A i \in 1..Len(turn.tool_calls) :
               /\ turn.tool_results[i].tool_use_id = turn.tool_calls[i].id
               /\ turn.tool_results[i].content.error <=>
                      (turn.tool_calls[i].name \notin TOOL_NAMES
                           \/ i \in turn.raising)
        /\ Len(turn.invocations) = 2 =>
               LET messages == turn.invocations[2].messages
                   blocks == messages[Len(messages)].content
               IN  /\ messages[Len(messages)].role = "user"
                   /\ Len(blocks) = Len(turn.tool_results)
                   /\ \A i \in 1..Len(blocks) :
                          /\ blocks[i].type = "tool_result"
                          /\ blocks[i].tool_use_id =
                                 turn.tool_results[i].tool_use_id
                          /\ blocks[i].content = turn.tool_results[i].content

C10_Witness ==
    /\ IsTurn
    /\ Len(turn.tool_calls) = 2
    /\ turn.raising = {1}
    /\ turn.tool_results[1].content.error
    /\ ~turn.tool_results[2].content.error
    /\ Len(turn.invocations) = 2

\* C11: when a follow-up invocation is made, the text and the action the
\* turn returns are the follow-up reply's (its error fallback values
\* included), never the first reply's, unless the turn cap overrides them.
C11_FollowUpSupersedes ==
    (IsTurn /\ Len(turn.invocations) = 2 /\ resp.turnCount < cfg.max_turns) =>
        /\ resp.response = turn.invocations[2].reply.response
        /\ resp.action = turn.invocations[2].reply.action

C11_Witness ==
    /\ IsTurn
    /\ Len(turn.invocations) = 2
    /\ turn.invocations[1].reply.action = "transfer"
    /\ turn.invocations[2].kind = "ModelStreamErrorException"
    /\ resp.action = "continue"
    /\ resp.response = STREAM_ERROR_MESSAGE

\* The event handled last ran the user_input handler.
WasTurn == last.type \in {"user_input", "unknown"}

\* lambda_handler returned a response for the event handled last.
Returned == last.type # "none" /\ resp # Unhandled

\* The last turn ran to its end and its turn count is under the maximum.
Uncapped == WasTurn /\ turn.stop = "done" /\ resp.turnCount < cfg.max_turns

ActionNames == {"continue", "transfer", "end"}

\* C12: every response lambda_handler returns, for every event type and every
\* outcome of the backend, the tools, the session store and the collaborators
\* (every error path included), carries an action that is one of continue,
\* transfer and end.
C12_ActionVocabulary ==
    Returned => ("action" \in DOMAIN resp /\ resp.action \in ActionNames)

C12_WitnessUnknownType ==
    /\ last.type = "unknown"
    /\ Returned
    /\ resp.action = "continue"
    /\ turn.invocations[1].kind = "ThrottlingException"

C12_Witness ==
    /\ last.type = "init"
    /\ "error" \in DOMAIN resp
    /\ resp.action = "transfer"

\* C13: a session-store failure on create or update during an init or a
\* user_input turn always propagates to the top-level error policy: no such
\* turn returns its normal response after a write failed to persist.
C13_PersistFailurePropagates ==
    (last.type \in {"init", "user_input"} /\ last.trace.failed_puts # {}) =>
        (resp = Unhandled \/ "error" \in DOMAIN resp)

TIMEOUT_KINDS == {"TimeoutError", "ReadTimeoutError"}

\* C15: a timeout during the primary inference call of a turn is recoverable:
\* the turn returns action continue with a fallback message, never transfer.
C15_TimeoutIsRecoverable ==
    (/\ Uncapped
     /\ turn.invocations[1].kind \in TIMEOUT_KINDS)
        => (resp.action = "continue" /\ resp.action # "transfer")

\* C16: generate_response never raises: throttling gives continue with the
\* please-hold message, a stream error gives continue with the please-repeat
\* message, every other failure gives transfer; no tool calls come back in
\* these cases, so no tool is executed and no follow-up invocation is made.
C16_BackendFailureAbsorbed ==
    (IsTurn /\ turn.invocations[1].kind # "ok") =>
        LET kind == turn.invocations[1].kind
            reply == turn.invocations[1].reply
        IN  /\ turn.stop = "done"
            /\ Len(turn.invocations) = 1
            /\ turn.tool_calls = <<>>
            /\ turn.tool_results = <<>>
            /\ kind = "ThrottlingException" =>
                   reply = [response |-> THROTTLE_MESSAGE, action |-> "continue"]
            /\ kind = "ModelStreamErrorException" =>
                   reply = [response |-> STREAM_ERROR_MESSAGE, action |-> "continue"]
            /\ kind \notin {"ThrottlingException", "ModelStreamErrorException"} =>
                   reply.action = "transfer"
            /\ Uncapped =>
                   (resp.response = reply.response /\ resp.action = reply.action)

C16_Witness ==
    /\ IsTurn
    /\ turn.invocations[1].kind = "ReadTimeoutError"
    /\ Len(turn.invocations) = 1
    /\ resp.action = "transfer"
    /\ resp.response = UNEXPECTED_ERROR_MESSAGE

\* C17: a failure of a best-effort collaborator (the graph store or the
\* metrics sink) during an init, user_input or end turn never fails the turn
\* and never changes the response or action returned, compared with the same
\* event handled without that failure.
C17_CollaboratorFailureHarmless ==
    (last.type # "none" /\ last.collaborator_failed) => resp = last.unaffected

\* The class of a backend failure, which selects the message spoken.
FailureClass(kind) ==
    CASE kind = "ThrottlingException" -> "throttle"
      [] kind = "ModelStreamErrorException" -> "stream"
      [] kind \in CLIENT_ERROR_CODES -> "client"
      [] OTHER -> "unexpected"

Canned ==
    [throttle |-> THROTTLE_MESSAGE, stream |-> STREAM_ERROR_MESSAGE,
     client |-> CLIENT_ERROR_MESSAGE, unexpected |-> UNEXPECTED_ERROR_MESSAGE]

\* C18: for every failure surfaced during a turn the response field is one of
\* a fixed set of canned messages selected by the kind of the failure alone:
\* an exception answered by the error policy gives the internal-error message
\* whatever its text, and a backend failure gives the message of its class.
C18_CannedByKind ==
    Returned =>
        /\ "error" \in DOMAIN resp =>
               /\ resp.response = INTERNAL_ERROR_MESSAGE
               /\ resp.error.message = "An unexpected error occurred"
        /\ (Uncapped /\ turn.invocations[Len(turn.invocations)].kind # "ok") =>
               resp.response =
                   Canned[FailureClass(turn.invocations[Len(turn.invocations)].kind)]

C18_Witness ==
    /\ last.type = "user_input"
    /\ last.trace.failed_puts = {"add2.put"}
    /\ resp.response = INTERNAL_ERROR_MESSAGE
    /\ turn.invocations[1].kind = "TimeoutError"

\* C19: the stored session is written once per user_input turn, by the update
\* at the end of the turn, and a turn that fails before its end leaves the
\* stored session as it was before the turn.
C19_SingleWritePerTurn ==
    last.type = "user_input" =>
        LET written == Len(last.trace.writes) - Count(last.trace.writes, "create")
        IN  /\ turn.stop = "done" => written = 1
            /\ turn.stop # "done" => written = 0

\* Every invocation has run to its end.
AllDone ==
    /\ DOMAIN inflight = Procs
    /\ \A p \in Procs : inflight[p].pc = "done"

InHistory(message, session) ==
    \E i \in 1..Len(session.conversation_history) :
        session.conversation_history[i] = message

\* C20: two user_input invocations of one contact interleave with no lock and
\* the last writer wins: the stored item is always exactly the item one
\* invocation wrote last (or the one the contact started with), never a merge
\* of two invocations' writes, so an entry appended by the other invocation is
\* lost from the final stored history.
C20_LastWriterWins ==
    \/ Stored(Store, RaceContact) \in {None, Stored(GreetedStore, RaceContact)}
    \/ \E p \in DOMAIN inflight : Stored(Store, RaceContact) = inflight[p].put

C20_Witness ==
    /\ AllDone
    /\ \E p \in Procs, q \in Procs :
           /\ p # q
           /\ inflight[p].clobbered
           /\ inflight[q].appended # <<>>
           /\ Stored(Store, RaceContact) = inflight[p].put
           /\ \E i \in 1..Len(inflight[q].appended) :
                  ~InHistory(inflight[q].appended[i], Stored(Store, RaceContact))

\* The store holding nothing but the session start of contact c.
AloneStore(c, start) ==
    PutItem(EmptyStore, c, start)

\* The same user_input event handled with no other invocation running, from
\* the session its contact had when the invocation began; the uuid drawn is
\* the one the invocation drew.
Alone(proc) ==
    handle_user_input(AloneStore(proc.contact_id, proc.start), proc.contact_id,
                      proc.session.session_id, proc.user_input, RaceOutcome,
                      NoOutcome, {}, now, NoFaults)

\* The invocations that took the step: those started or advanced by it.
Stepped(before, after) ==
    {p \in DOMAIN after : p \notin DOMAIN before \/ after[p] # before[p]}

\* C21: under any interleaving of invocations for different contacts, a step
\* of the invocation for contact A leaves the stored session of every other
\* contact unchanged, and an invocation that has returned gave the response,
\* and left the stored session, that the same event gives when handled alone.
C21_ContactsIndependent ==
    [][/\ \A c \in ParContacts :
              Stored([sessions |-> sessions', table |-> table'], c)
                      # Stored(Store, c)
                  => \A p \in Stepped(inflight, inflight') :
                         inflight'[p].contact_id = c
       /\ \A p \in Stepped(inflight, inflight') :
              inflight'[p].pc = "done" =>
                  /\ inflight'[p].resp = Alone(inflight'[p]).resp
                  /\ Stored([sessions |-> sessions', table |-> table'],
                            inflight'[p].contact_id)
                         = Stored(Alone(inflight'[p]).st,
                                  inflight'[p].contact_id)]_vars

C21_Witness ==
    /\ AllDone
    /\ inflight["p1"].start # None
    /\ inflight["p2"].start = None
    /\ inflight["p1"].resp.turnCount = 1
    /\ inflight["p2"].resp.sessionId = 3
    /\ Stored(Store, "c1").session_id = 1
    /\ Stored(Store, "c2").session_id = 3

\* Both deployments have handled the same events.
TwinCompared == IF inflight = Idle THEN FALSE ELSE inflight.twin.pc = "done"

\* The turn count and history of the session a lookup returns, absent or not.
Observed(session) ==
    IF session = None THEN None
    ELSE [turn_count |-> session.turn_count,
          conversation_history |-> session.conversation_history]

\* C22: for every sequence of init, user_input and end events with the same
\* backend outputs, the in-memory and the durable backing give the same
\* response (text, action, session identifier, turn count) and leave the
\* same session history and turn count for the contact after every event.
C22_BackingsAgree ==
    TwinCompared =>
        /\ inflight.twin.memory.resp = inflight.twin.durable.resp
        /\ Observed(inflight.twin.memory.session)
               = Observed(inflight.twin.durable.session)

\* C23: the k-th completed user_input turn of a session returns turnCount k
\* and stores turn count k: each completed turn returns and stores one more
\* than the turn count the session had before it (0 for a session the turn
\* created), with or without a greeting and whatever the history cap.
C23_TurnCountIsExchanges ==
    (IsTurn /\ turn.stop = "done") =>
        LET before == IF turn.pre_session = None THEN 0
                      ELSE turn.pre_session.turn_count
        IN  /\ resp.turnCount = before + 1
            /\ Stored(Store, last.contact).turn_count = before + 1

\* C24: tools are executed and a follow-up invocation is made only when the
\* first invocation stopped for tool use; when it stopped for any other
\* reason no tool is executed, no follow-up is made and the first reply's
\* text and action are returned, even if the reply carries tool calls.
C24_ToolsOnlyOnToolUse ==
    (/\ IsTurn
     /\ turn.invocations[1].kind = "ok"
     /\ turn.invocations[1].reply.stop_reason # "tool_use") =>
        /\ turn.tool_results = <<>>
        /\ Len(turn.invocations) = 1
        /\ Uncapped =>
               /\ resp.response = turn.invocations[1].reply.response
               /\ resp.action = turn.invocations[1].reply.action

WasBuilt == last.type = "build_response"

\* C25: the action derived from one backend response is, when the stop reason
\* is tool_use with at least one tool call, transfer if some call names
\* transfer_to_agent and continue otherwise, whatever the text says; in every
\* other case end if the text contains a closing phrase, else transfer if it
\* contains both "transfer" and "agent", else continue.
C25_ActionDerivation ==
    WasBuilt =>
        resp.action =
            IF last.stop_reason = "tool_use" /\ Len(last.tool_calls) >= 1
            THEN IF \E i \in 1..Len(last.tool_calls) :
                        last.tool_calls[i].name = "transfer_to_agent"
                 THEN "transfer"
                 ELSE "continue"
            ELSE IF HasClosingPhrase(last.text) THEN "end"
            ELSE IF HasTransferCue(last.text) THEN "transfer"
            ELSE "continue"

C25_Witness ==
    /\ WasBuilt
    /\ last.text = BOTH_CUES_TEXT
    /\ HasClosingPhrase(last.text)
    /\ HasTransferCue(last.text)
    /\ last.stop_reason = "max_tokens"
    /\ last.tool_calls # <<>>
    /\ resp.action = "end"

WasError == last.type = "error"

\* The error carries recoverable = true.
Recoverable(error) == error.type \in VOICE_AGENT_ERRORS /\ error.recoverable

\* C26: for every error that reaches handle_error the action is continue
\* exactly when the error carries recoverable = true or is a timeout, and
\* transfer otherwise; and every error with the code CONFIGURATION_ERROR
\* carries recoverable = false, wherever it is raised, and maps to transfer.
C26_RecoverableDecidesAction ==
    WasError =>
        /\ resp.action = IF Recoverable(last.error)
                            \/ last.error.type = "TimeoutError"
                         THEN "continue" ELSE "transfer"
        /\ last.error.error_code = "CONFIGURATION_ERROR" =>
               /\ ~last.error.recoverable
               /\ resp.action = "transfer"

\* C27: every stored session satisfies ttl = updated_at + SESSION_TTL_SECONDS
\* after every create and every update, so a session a lookup treats as
\* absent by expiry was last written more than the TTL ago.
C27_TtlSlides ==
    \A c \in Contacts :
        Stored(Store, c) # None =>
            /\ Stored(Store, c).ttl
                   = Stored(Store, c).updated_at + SESSION_TTL_SECONDS
            /\ Live(c) = None =>
                   now > Stored(Store, c).updated_at + SESSION_TTL_SECONDS

\* C28: the assistant entry is appended (and the turn recorded in the memory
\* store) before the turn cap is evaluated: after a completed turn the last
\* stored entry is the assistant's entry with the backend's final text, which
\* is not the hand-off message when the cap override fires and equals the
\* returned response in every other completed turn.
C28_ReplyStoredBeforeCap ==
    (IsTurn /\ turn.stop = "done") =>
        LET history == Stored(Store, last.contact).conversation_history
            capped == resp.turnCount >= cfg.max_turns
        IN  /\ history # <<>>
            /\ history[Len(history)] = Message("assistant", FinalReply.response)
            /\ cfg.neptune =>
                   turn.stored_turn = <<last.user_input, FinalReply.response>>
            /\ capped => history[Len(history)].content # resp.response
            /\ ~capped => history[Len(history)].content = resp.response

\* The first reply of the turn asks for the transfer_to_agent tool.
TransferRequested ==
    /\ turn.invocations[1].kind = "ok"
    /\ \E i \in 1..Len(turn.invocations[1].reply.tool_calls) :
           turn.invocations[1].reply.tool_calls[i].name = "transfer_to_agent"

\* C29: if the first inference response of a turn requests the
\* transfer_to_agent tool, the action returned for the turn is transfer,
\* whatever the follow-up invocation's text says.
C29_TransferRequestHonoured ==
    (IsTurn /\ turn.stop = "done" /\ TransferRequested) =>
        resp.action = "transfer"

\* C30: in every stored session, after any sequence of init and user_input
\* events, turns that failed part-way included, no two consecutive history
\* entries have the same role and every user entry is followed by an
\* assistant entry (no turn being in progress between events).
C30_RolesAlternate ==
    \A c \in Contacts :
        Stored(Store, c) # None =>
            LET history == Stored(Store, c).conversation_history
            IN  /\ \A i \in 1..(Len(history) - 1) :
                       history[i].role # history[i + 1].role
                /\ history # <<>> => history[Len(history)].role = "assistant"

====
